---- MODULE Spec2Model ----
(***************************************************************************)
(* A model of the transcript analyser: the retry loop around the chat      *)
(* completion call (utils/groq_utils.py, _make_api_request), the three     *)
(* reply rescuers (app.analyze_with_groq, GroqTranscriptAnalyzer           *)
(* ._parse_response, groq_utils.analyze_with_groq), the entry points that  *)
(* take a transcript, and the CSV log written by the /analyze route.       *)
(*                                                                         *)
(* Text is a sequence of one-character strings, so that slices such as     *)
(* content[7:-3] cut where the code cuts.                                  *)
(***************************************************************************)
EXTENDS Integers, Sequences, FiniteSets, TLC

VARIABLES
    \* ---- _make_api_request (groq_utils.py 107-129)
    rpc,            \* position in the retry loop
    max_retries,    \* self.config.max_retries
    retry_delay,    \* self.config.retry_delay, in units of the base delay
    attempt,        \* the loop variable of "for attempt in range(max_retries)"
    attempts,       \* the outcome of every requests.post made so far
    sleeps,         \* the argument of every time.sleep made so far
    ret,            \* what the call returned or raised
    \* ---- one reply put through one rescuer
    body,           \* the text the model was asked for, with the value it denotes
    wrap,           \* what the model put around it: [kind, pad]
    reply,          \* choices[0].message.content
    rescuer,        \* the rescuer the reply was given to, "none" before
    outcome,        \* what that rescuer gave its caller
    \* ---- the environment and the log file call_analysis.csv
    api_key,        \* whether GROQ_API_KEY is set
    exists,         \* os.path.exists(csv_filename)
    file,           \* the content of the file, a sequence of cells
    \* ---- the threads serving POST /analyze
    tpc,            \* where each thread is in the handler and in append_to_csv
    treq,           \* the number of requests each thread has taken
    trow,           \* the row the thread is appending
    tresp,          \* the last response of each thread
    appended,       \* the rows whose append_to_csv has returned
    \* ---- one caller of one entry point
    call,           \* the call: entry point, transcript, position, outcome
    \* ---- the process of app.py
    server,         \* how it was launched, and whether it serves
    \* ---- one call of analyze_batch
    batch           \* its position, its loop variable, what it has done so far

retryVars == <<rpc, max_retries, retry_delay, attempt, attempts, sleeps, ret>>
rescueVars == <<body, wrap, reply, rescuer, outcome>>
fsVars == <<exists, file>>
threadVars == <<tpc, treq, trow, tresp, appended>>
vars == <<retryVars, rescueVars, api_key, server, batch, fsVars, threadVars, call>>

(***************************************************************************)
(* Bounds of the model.                                                    *)
(***************************************************************************)
MaxRetries == 4
MaxDelay == 2
\* the summaries of the replies are "", "s", ... up to this length
MaxSummaryLen == 1
\* the line breaks the model puts around the body, 0 up to this number
MaxPad == 1
\* the requests the threads serve, all together
MaxRequests == 3
\* a data row of the log takes 1 up to this number of cells; the header takes
\* HeaderCells, so rows shorter than, as long as and longer than the header occur
MaxRowCells == 3
\* the transcripts of a batch
MaxBatch == 3
HeaderCells == 2

(***************************************************************************)
(* Arithmetic.                                                             *)
(***************************************************************************)
RECURSIVE Pow2(_)
Pow2(n) == IF n = 0 THEN 1 ELSE 2 * Pow2(n - 1)

(***************************************************************************)
(* The element of a set of one element. Only({e(x) : x \in {v}}) is e of   *)
(* the value of v, worked out once.                                        *)
(***************************************************************************)
Only(S) == CHOOSE x \in S : TRUE

(***************************************************************************)
(* Text: str operations the rescuers use.                                  *)
(***************************************************************************)
Digits == {"0", "1", "2", "3", "4", "5", "6", "7", "8", "9"}

\* What str.strip() removes, and what the JSON scanner skips between tokens.
PyWhitespace == {" ", "\t", "\n", "\r", "\f"}
JsonWhitespace == {" ", "\t", "\n", "\r"}

\* The backtick character (U+0060, grave accent), which a TLA+ string cannot hold.
Backtick == "grave"
Fence == <<Backtick, Backtick, Backtick>>

RECURSIVE LStrip(_)
LStrip(s) ==
    IF s # <<>> /\ Head(s) \in PyWhitespace THEN LStrip(Tail(s)) ELSE s

RECURSIVE RStrip(_)
RStrip(s) ==
    IF s # <<>> /\ s[Len(s)] \in PyWhitespace
       THEN RStrip(SubSeq(s, 1, Len(s) - 1))
       ELSE s

\* str.strip()
Strip(s) == RStrip(LStrip(s))

\* str.startswith(prefix)
StartsWith(s, prefix) ==
    Len(s) >= Len(prefix) /\ SubSeq(s, 1, Len(prefix)) = prefix

\* content[a:-b], for a, b > 0
Slice(s, a, b) ==
    IF a + 1 > Len(s) - b THEN <<>> ELSE SubSeq(s, a + 1, Len(s) - b)

\* the first index >= from at which s holds c, or 0
RECURSIVE IndexFrom(_, _, _)
IndexFrom(s, c, from) ==
    IF from > Len(s) THEN 0
    ELSE IF s[from] = c THEN from
    ELSE IndexFrom(s, c, from + 1)

\* the last index at which s holds c, or 0
RECURSIVE LastIndex(_, _, _)
LastIndex(s, c, upto) ==
    IF upto < 1 THEN 0
    ELSE IF s[upto] = c THEN upto
    ELSE LastIndex(s, c, upto - 1)

\* the first index in from..upto at which pat starts inside s[from..upto], or 0
RECURSIVE FindSub(_, _, _, _)
FindSub(s, pat, from, upto) ==
    IF from + Len(pat) - 1 > upto THEN 0
    ELSE IF SubSeq(s, from, from + Len(pat) - 1) = pat THEN from
    ELSE FindSub(s, pat, from + 1, upto)

UpperCase == <<"A", "B", "C", "D", "E", "F", "G", "H", "I", "J", "K", "L", "M",
               "N", "O", "P", "Q", "R", "S", "T", "U", "V", "W", "X", "Y", "Z">>
LowerCase == <<"a", "b", "c", "d", "e", "f", "g", "h", "i", "j", "k", "l", "m",
               "n", "o", "p", "q", "r", "s", "t", "u", "v", "w", "x", "y", "z">>

LowerChar(c) ==
    IF \E k \in 1..26 : UpperCase[k] = c
       THEN LowerCase[CHOOSE k \in 1..26 : UpperCase[k] = c]
       ELSE c

\* str.lower()
Lower(s) == [k \in 1..Len(s) |-> LowerChar(s[k])]

(***************************************************************************)
(* json.loads. A parsed value is [t, v]: a dict is a function from its     *)
(* keys (last value of a repeated key wins), a list a sequence of values,  *)
(* a str its text, a number its numeral; null is Python's None. Replies    *)
(* are over an alphabet without the backslash, so scanstring's escapes are *)
(* not modelled; a control character inside a string is an error.          *)
(***************************************************************************)
None == [t |-> "null", v |-> <<>>]
Str(text) == [t |-> "str", v |-> text]
Num(text) == [t |-> "num", v |-> text]
Bool(b) == [t |-> "bool", v |-> <<b>>]
Dict(f) == [t |-> "dict", v |-> f]
List(q) == [t |-> "list", v |-> q]

DictSet(f, k, x) == [y \in (DOMAIN f) \cup {k} |-> IF y = k THEN x ELSE f[y]]

JsonFail == [ok |-> FALSE, val |-> None, end |-> 0]
JsonOk(x, e) == [ok |-> TRUE, val |-> x, end |-> e]

RECURSIVE SkipWs(_, _)
SkipWs(s, i) ==
    IF i <= Len(s) /\ s[i] \in JsonWhitespace THEN SkipWs(s, i + 1) ELSE i

RECURSIVE SkipDigits(_, _)
SkipDigits(s, i) ==
    IF i <= Len(s) /\ s[i] \in Digits THEN SkipDigits(s, i + 1) ELSE i

At(s, i) == IF i >= 1 /\ i <= Len(s) THEN s[i] ELSE "EOF"

LitAt(s, i, lit) ==
    i + Len(lit) - 1 <= Len(s) /\ SubSeq(s, i, i + Len(lit) - 1) = lit

\* scanstring from the character after the opening quote: the index of the
\* closing quote, or 0 (unterminated, or a control character inside).
RECURSIVE StringEnd(_, _)
StringEnd(s, i) ==
    IF i > Len(s) THEN 0
    ELSE IF s[i] = "\"" THEN i
    ELSE IF s[i] \in {"\n", "\t", "\r", "\f"} THEN 0
    ELSE StringEnd(s, i + 1)

\* NUMBER_RE = (-?(?:0|[1-9]\d*))(\.\d+)?([eE][-+]?\d+)? matched at i: the index
\* after the match, or 0.
NumberEnd(s, i) ==
    LET j0 == IF At(s, i) = "-" THEN i + 1 ELSE i
        j1 == IF At(s, j0) = "0" THEN j0 + 1
              ELSE IF At(s, j0) \in Digits THEN SkipDigits(s, j0 + 1)
              ELSE 0
        j2 == IF At(s, j1) = "." /\ At(s, j1 + 1) \in Digits
                 THEN SkipDigits(s, j1 + 2)
                 ELSE j1
        k  == IF At(s, j2 + 1) \in {"+", "-"} THEN j2 + 2 ELSE j2 + 1
        j3 == IF At(s, j2) \in {"e", "E"} /\ At(s, k) \in Digits
                 THEN SkipDigits(s, k + 1)
                 ELSE j2
    IN  IF j1 = 0 THEN 0 ELSE j3

LitNull == <<"n", "u", "l", "l">>
LitTrue == <<"t", "r", "u", "e">>
LitFalse == <<"f", "a", "l", "s", "e">>
LitNaN == <<"N", "a", "N">>
LitInfinity == <<"I", "n", "f", "i", "n", "i", "t", "y">>

RECURSIVE ScanOnce(_, _)
RECURSIVE ParseMembers(_, _, _)
RECURSIVE ParseElements(_, _, _)

\* JSONObject, from the opening quote of a key at j
ParseMembers(s, j, acc) ==
    LET ke == StringEnd(s, j + 1)
        c  == SkipWs(s, ke + 1)
    IN  IF ke = 0 \/ At(s, c) # ":" THEN JsonFail
        ELSE LET x == ScanOnce(s, SkipWs(s, c + 1))
             IN  IF ~x.ok THEN JsonFail
                 ELSE LET acc2 == DictSet(acc, SubSeq(s, j + 1, ke - 1), x.val)
                          d    == SkipWs(s, x.end)
                          k2   == SkipWs(s, d + 1)
                      IN  IF At(s, d) = "}" THEN JsonOk(Dict(acc2), d + 1)
                          ELSE IF At(s, d) # "," THEN JsonFail
                          ELSE IF At(s, k2) # "\"" THEN JsonFail
                          ELSE ParseMembers(s, k2, acc2)

\* JSONArray, from the first character of an element at j
ParseElements(s, j, acc) ==
    LET x == ScanOnce(s, j)
    IN  IF ~x.ok THEN JsonFail
        ELSE LET acc2 == Append(acc, x.val)
                 d    == SkipWs(s, x.end)
             IN  IF At(s, d) = "]" THEN JsonOk(List(acc2), d + 1)
                 ELSE IF At(s, d) # "," THEN JsonFail
                 ELSE ParseElements(s, SkipWs(s, d + 1), acc2)

\* scan_once: one JSON value starting exactly at i
ScanOnce(s, i) ==
    LET c == At(s, i)
    IN  IF c = "\"" THEN
            LET e == StringEnd(s, i + 1)
            IN  IF e = 0 THEN JsonFail ELSE JsonOk(Str(SubSeq(s, i + 1, e - 1)), e + 1)
        ELSE IF c = "{" THEN
            LET j == SkipWs(s, i + 1)
            IN  IF At(s, j) = "}" THEN JsonOk(Dict(<<>>), j + 1)
                ELSE IF At(s, j) # "\"" THEN JsonFail
                ELSE ParseMembers(s, j, <<>>)
        ELSE IF c = "[" THEN
            LET j == SkipWs(s, i + 1)
            IN  IF At(s, j) = "]" THEN JsonOk(List(<<>>), j + 1)
                ELSE ParseElements(s, j, <<>>)
        ELSE IF LitAt(s, i, LitNull) THEN JsonOk(None, i + 4)
        ELSE IF LitAt(s, i, LitTrue) THEN JsonOk(Bool(TRUE), i + 4)
        ELSE IF LitAt(s, i, LitFalse) THEN JsonOk(Bool(FALSE), i + 5)
        ELSE IF NumberEnd(s, i) # 0 THEN
            JsonOk(Num(SubSeq(s, i, NumberEnd(s, i) - 1)), NumberEnd(s, i))
        ELSE IF LitAt(s, i, LitNaN) THEN JsonOk(Num(LitNaN), i + 3)
        ELSE IF LitAt(s, i, LitInfinity) THEN JsonOk(Num(LitInfinity), i + 8)
        ELSE IF c = "-" /\ LitAt(s, i + 1, LitInfinity) THEN
            JsonOk(Num(<<"-">> \o LitInfinity), i + 9)
        ELSE JsonFail

\* json.loads(s): one value, whitespace around it, nothing else. A failure is
\* json.JSONDecodeError.
JsonLoads(s) ==
    Only({IF x.ok /\ SkipWs(s, x.end) = Len(s) + 1 THEN x ELSE JsonFail :
            x \in {ScanOnce(s, SkipWs(s, 1))}})

\* bool(value), as "if not result" tests it
IsZeroNumeral(text) ==
    LET m == IF \E k \in 1..Len(text) : text[k] \in {"e", "E"}
                THEN SubSeq(text, 1, (CHOOSE k \in 1..Len(text) :
                        /\ text[k] \in {"e", "E"}
                        /\ \A h \in 1..(k - 1) : text[h] \notin {"e", "E"}) - 1)
                ELSE text
    IN  /\ \E k \in 1..Len(m) : m[k] \in Digits
        /\ \A k \in 1..Len(m) : m[k] \in Digits => m[k] = "0"

Truthy(x) ==
    CASE x.t = "null" -> FALSE
      [] x.t = "bool" -> x.v[1]
      [] x.t = "num"  -> ~IsZeroNumeral(x.v)
      [] x.t = "str"  -> x.v # <<>>
      [] x.t = "list" -> x.v # <<>>
      [] x.t = "dict" -> DOMAIN x.v # {}

\* key in container: "yes", "no", or "TypeError" when the value is no container
Contains(x, key) ==
    CASE x.t = "dict" -> IF key \in DOMAIN x.v THEN "yes" ELSE "no"
      [] x.t = "list" -> IF \E k \in 1..Len(x.v) : x.v[k] = Str(key)
                            THEN "yes" ELSE "no"
      [] x.t = "str"  -> IF FindSub(x.v, key, 1, Len(x.v)) # 0 \/ key = <<>>
                            THEN "yes" ELSE "no"
      [] OTHER -> "TypeError"

(***************************************************************************)
(* The regular expressions of the rescuers, as re.search finds them: the   *)
(* leftmost match, [found, text].                                          *)
(***************************************************************************)
KSummary == <<"s", "u", "m", "m", "a", "r", "y">>
KSentiment == <<"s", "e", "n", "t", "i", "m", "e", "n", "t">>
QSummary == <<"\"">> \o KSummary \o <<"\"">>
QSentiment == <<"\"">> \o KSentiment \o <<"\"">>

NoMatch == [found |-> FALSE, text |-> <<>>]
Match(s, i, e) == [found |-> TRUE, text |-> SubSeq(s, i, e)]

\* \{[^}]*"summary"[^}]*"sentiment"[^}]*\} anchored at i: no part of the pattern
\* but its last character matches "}", so a match from i ends at the first "}"
\* after i and needs "summary" and then "sentiment", quoted, before it.
NarrowEnd(s, i) ==
    LET e == IndexFrom(s, "}", i + 1)
        a == FindSub(s, QSummary, i + 1, e - 1)
        b == FindSub(s, QSentiment, a + Len(QSummary), e - 1)
    IN  IF At(s, i) = "{" /\ e # 0 /\ a # 0 /\ b # 0 THEN e ELSE 0

RECURSIVE NarrowSearchFrom(_, _)
NarrowSearchFrom(s, i) ==
    IF i > Len(s) THEN NoMatch
    ELSE IF NarrowEnd(s, i) # 0 THEN Match(s, i, NarrowEnd(s, i))
    ELSE NarrowSearchFrom(s, i + 1)

\* re.search(r'\{[^}]*"summary"[^}]*"sentiment"[^}]*\}', content, re.DOTALL)
NarrowSearch(s) == NarrowSearchFrom(s, 1)

\* re.search(r'\{.*?\}', content, re.DOTALL): the first "{" to the first "}"
\* after it
LazySearch(s) ==
    LET i == IndexFrom(s, "{", 1)
        e == IndexFrom(s, "}", i + 1)
    IN  IF i # 0 /\ e # 0 THEN Match(s, i, e) ELSE NoMatch

\* re.search(r"\{.*\}", content, re.DOTALL): the first "{" to the last "}"
GreedySearch(s) ==
    LET i == IndexFrom(s, "{", 1)
        e == LastIndex(s, "}", Len(s))
    IN  IF i # 0 /\ e > i THEN Match(s, i, e) ELSE NoMatch

(***************************************************************************)
(* The rescuers. An outcome is what the caller gets: a result, or an error *)
(* of a kind, with the text its message carries.                           *)
(***************************************************************************)
Positive == <<"p", "o", "s", "i", "t", "i", "v", "e">>
Negative == <<"n", "e", "g", "a", "t", "i", "v", "e">>
Neutral == <<"n", "e", "u", "t", "r", "a", "l">>

\* valid_sentiments (app.py), [s.value for s in SentimentType] (groq_utils.py)
ValidSentiments == {Positive, Negative, Neutral}

Success(r) == [ok |-> TRUE, result |-> r, error |-> "none", text |-> <<>>]
Failure(kind, text) == [ok |-> FALSE, result |-> None, error |-> kind, text |-> text]

\* content[7:-3] under the first test; the elif repeats the test, so its
\* content[3:-3] is never taken.
StripFence(content) ==
    IF StartsWith(content, Fence) THEN Strip(Slice(content, 7, 3))
    ELSE IF StartsWith(content, Fence) THEN Strip(Slice(content, 3, 3))
    ELSE content

\* app.py 108-114: the sentiment of a result that has one
AppFixSentiment(result) ==
    LET v == result.v[KSentiment]
    IN  IF v.t # "str" THEN Failure("AttributeError", <<>>)
        ELSE LET fixed == IF Lower(v.v) \notin ValidSentiments THEN Neutral ELSE v.v
             IN  Success(Dict(DictSet(result.v, KSentiment, Str(Lower(fixed)))))

\* app.py 104-117, inside the try of line 50 whose handler is line 119
AppValidate(result) ==
    IF Contains(result, KSummary) = "TypeError" THEN Failure("TypeError", <<>>)
    ELSE IF Contains(result, KSummary) = "no" \/ Contains(result, KSentiment) = "no"
       THEN Failure("SchemaViolation", <<>>)
    ELSE IF result.t # "dict" THEN Failure("TypeError", <<>>)
    ELSE AppFixSentiment(result)

\* app.py 60-64: the local variables content and result; tried lists the
\* methods that have run
AppStart(raw) == [content |-> Strip(raw), result |-> None, tried |-> <<>>]

\* a method has run and json.loads gave m
AppTried(env, method, m) ==
    [env EXCEPT !.result = IF m.ok THEN m.val ELSE @,
                !.tried = Append(@, method)]

\* Method 1 (app.py 67-71): result = json.loads(content)
AppMethod1(env) ==
    Only({AppTried(env, "direct", m) : m \in {JsonLoads(env.content)}})

\* Method 2 (app.py 74-85), run "if not result": the fence is cut off and the
\* rest parsed
AppMethod2(env) ==
    IF Truthy(env.result) THEN env
    ELSE Only({AppTried(env, "fence", m) :
                 m \in {JsonLoads(StripFence(env.content))}})

\* the match of app.py 90-92: the narrow pattern, and the other only when the
\* narrow one does not match
AppSearch(content) ==
    Only({IF n.found THEN n ELSE LazySearch(content) :
            n \in {NarrowSearch(content)}})

\* Method 3 (app.py 88-99), run "if not result": the match is parsed
AppMethod3(env) ==
    IF Truthy(env.result) THEN env
    ELSE Only({IF ~match.found THEN AppTried(env, "pattern", JsonFail)
               ELSE Only({AppTried(env, "pattern", m) :
                            m \in {JsonLoads(match.text)}}) :
                 match \in {AppSearch(env.content)}})

\* app.py 60-99: the three methods in their order
AppParse(raw) ==
    Only({AppMethod3(e2) :
            e2 \in {AppMethod2(e1) :
                      e1 \in {AppMethod1(e0) : e0 \in {AppStart(raw)}}}})

\* app.py 101-117
AppFinish(env) ==
    IF ~Truthy(env.result) THEN Failure("ParseFailure", env.content)
    ELSE AppValidate(env.result)

\* app.analyze_with_groq, from the reply text on (app.py 60-120)
AppRescue(raw) == Only({AppFinish(env) : env \in {AppParse(raw)}})

\* groq_utils.py 162-165
AnalyzerFixSentiment(result) ==
    LET v == result.v[KSentiment]
    IN  IF v.t = "str" /\ v.v \in ValidSentiments THEN Success(result)
        ELSE Success(Dict(DictSet(result.v, KSentiment, Str(Neutral))))

\* groq_utils.py 156-167
AnalyzerValidate(result) ==
    IF Contains(result, KSummary) = "TypeError" THEN Failure("TypeError", <<>>)
    ELSE IF Contains(result, KSummary) = "no" THEN Failure("SchemaViolation", KSummary)
    ELSE IF Contains(result, KSentiment) = "no" THEN Failure("SchemaViolation", KSentiment)
    ELSE IF result.t # "dict" THEN Failure("TypeError", <<>>)
    ELSE AnalyzerFixSentiment(result)

\* groq_utils.py 146-154: the text from the first "{" to the last "}" is parsed
AnalyzerExtract(content) ==
    Only({IF ~g.found THEN Failure("ParseFailure", <<>>)
          ELSE Only({IF x.ok THEN AnalyzerValidate(x.val)
                             ELSE Failure("ParseFailure", <<>>) :
                       x \in {JsonLoads(g.text)}}) :
            g \in {GreedySearch(content)}})

\* groq_utils.py 142-167, on the content without its fence
AnalyzerParse(content) ==
    Only({IF m.ok THEN AnalyzerValidate(m.val) ELSE AnalyzerExtract(content) :
            m \in {JsonLoads(content)}})

\* GroqTranscriptAnalyzer._parse_response (groq_utils.py 131-172)
ParseResponse(raw) ==
    Only({AnalyzerParse(content) : content \in {StripFence(Strip(raw))}})

KConfidence == <<"c", "o", "n", "f", "i", "d", "e", "n", "c", "e", "_", "s", "c", "o", "r", "e">>
KTopics == <<"k", "e", "y", "_", "t", "o", "p", "i", "c", "s">>
KWordCount == <<"w", "o", "r", "d", "_", "c", "o", "u", "n", "t">>

\* dict.get(key): the value, or None
Get(f, key) == IF key \in DOMAIN f THEN f[key] ELSE None

\* AnalysisResult(...) with a word count of 0 put in for a missing one
BuildAnalysisResultDefaults(d) ==
    Dict([k \in {KSummary, KSentiment, KConfidence, KTopics, KWordCount} |->
              IF k = KWordCount /\ k \notin DOMAIN d.v THEN Num(<<"0">>)
              ELSE Get(d.v, k)])

\* AnalysisResult(...) of groq_utils.py 195-201, as the dict of its fields
BuildAnalysisResult(d) ==
    Dict([k \in {KSummary, KSentiment, KConfidence, KTopics, KWordCount} |->
              Get(d.v, k)])

\* groq_utils.py 194-209: the result of _parse_response made an AnalysisResult
AnalyzeFinish(parsed) ==
    IF parsed.ok THEN Success(BuildAnalysisResult(parsed.result)) ELSE parsed

\* GroqTranscriptAnalyzer.analyze, from the response on (groq_utils.py 192-209)
AnalyzeRescue(raw) ==
    Only({AnalyzeFinish(parsed) : parsed \in {ParseResponse(raw)}})

\* groq_utils.py 269-271
CompatValidate(result) ==
    IF Contains(result, KSummary) = "TypeError" THEN Failure("TypeError", <<>>)
    ELSE IF Contains(result, KSummary) = "no" \/ Contains(result, KSentiment) = "no"
       THEN Failure("SchemaViolation", <<>>)
    ELSE Success(result)

\* groq_utils.py 263-267: the text from the first "{" to the last "}" is parsed
CompatExtract(content) ==
    Only({IF ~g.found THEN Failure("ParseFailure", <<>>)
          ELSE Only({IF x.ok THEN CompatValidate(x.val)
                             ELSE Failure("JSONDecodeError", <<>>) :
                       x \in {JsonLoads(g.text)}}) :
            g \in {GreedySearch(content)}})

\* groq_utils.analyze_with_groq, from the reply text on (groq_utils.py 257-273)
CompatRescue(raw) ==
    Only({IF m.ok THEN CompatValidate(m.val) ELSE CompatExtract(raw) :
            m \in {JsonLoads(raw)}})

(***************************************************************************)
(* The replies: a body (a JSON object of summary, sentiment and other      *)
(* members, or some other text) inside a wrapper (nothing, a code fence    *)
(* with or without a language tag, prose).                                 *)
(***************************************************************************)
Quoted(t) == <<"\"">> \o t \o <<"\"">>

RECURSIVE Repeat(_, _)
Repeat(c, n) == IF n = 0 THEN <<>> ELSE <<c>> \o Repeat(c, n - 1)

\* A member of an object: its key, the text of its value, the value.
Member(k, text, val) == [key |-> k, text |-> text, val |-> val]
StrMember(k, t) == Member(k, Quoted(t), Str(t))

SummaryTexts ==
    {Repeat("s", n) : n \in 0..MaxSummaryLen} \cup {<<"a", "}">>}

SentimentWords ==
    { Positive, Negative, Neutral,
      <<"P", "o", "s", "i", "t", "i", "v", "e">>,
      <<"P", "O", "S", "I", "T", "I", "V", "E">>,
      <<"N", "e", "g", "a", "t", "i", "v", "e">>,
      <<"N", "E", "U", "T", "R", "A", "L">>,
      <<"h", "a", "p", "p", "y">>,
      <<>> }

SentimentMembers ==
    {StrMember(KSentiment, w) : w \in SentimentWords} \cup
    { Member(KSentiment, <<"5">>, Num(<<"5">>)),
      Member(KSentiment, LitNull, None),
      Member(KSentiment, <<"{", "}">>, Dict(<<>>)) }

KMeta == <<"m", "e", "t", "a">>
KA == <<"a">>

Extras ==
    { <<>>,
      <<Member(KConfidence, <<"0", ".", "5">>, Num(<<"0", ".", "5">>))>>,
      <<Member(KTopics, <<"[">> \o Quoted(<<"t">>) \o <<"]">>, List(<<Str(<<"t">>)>>))>>,
      <<Member(KMeta, <<"{">> \o Quoted(KA) \o <<":", " ", "1", "}">>,
               Dict([k \in {KA} |-> Num(<<"1">>)]))>>,
      <<StrMember(KConfidence, <<"h">>),
        Member(KWordCount, <<"-", "1">>, Num(<<"-", "1">>))>> }

\* json.dumps of an object with these members, in this order
RECURSIVE MembersText(_)
MembersText(ms) ==
    IF ms = <<>> THEN <<>>
    ELSE Quoted(ms[1].key) \o <<":", " ">> \o ms[1].text
         \o (IF Len(ms) > 1 THEN <<",", " ">> ELSE <<>>)
         \o MembersText(Tail(ms))

ObjectText(ms) == <<"{">> \o MembersText(ms) \o <<"}">>

\* the dict the members denote
ObjectValue(ms) ==
    Dict([k \in {ms[i].key : i \in 1..Len(ms)} |->
            ms[CHOOSE i \in 1..Len(ms) :
                  /\ ms[i].key = k
                  /\ \A j \in (i + 1)..Len(ms) : ms[j].key # k].val])

ObjectBody(ms) ==
    [kind |-> "object", text |-> ObjectText(ms), valid |-> TRUE,
     val |-> ObjectValue(ms)]

OtherBody(text, valid, val) ==
    [kind |-> "other", text |-> text, valid |-> valid, val |-> val]

\* objects with both required members, summary first or sentiment first
FullObjects ==
    {<<StrMember(KSummary, sm), st>> \o ex :
        sm \in SummaryTexts, st \in SentimentMembers, ex \in Extras}
    \cup
    {ex \o <<st, StrMember(KSummary, sm)>> :
        sm \in SummaryTexts, st \in SentimentMembers, ex \in Extras}

\* objects that lack one or both
PartialObjects ==
    { <<>>,
      <<StrMember(KSummary, <<"s">>)>>,
      <<StrMember(KSentiment, Positive)>>,
      <<Member(KMeta, <<"{", "}">>, Dict(<<>>))>> }

SummarySentimentList ==
    <<"[">> \o QSummary \o <<",", " ">> \o QSentiment \o <<"]">>

OtherBodies ==
    { OtherBody(<<"0">>, TRUE, Num(<<"0">>)),
      OtherBody(<<"5">>, TRUE, Num(<<"5">>)),
      OtherBody(LitNull, TRUE, None),
      OtherBody(LitTrue, TRUE, Bool(TRUE)),
      OtherBody(<<"[", "]">>, TRUE, List(<<>>)),
      OtherBody(SummarySentimentList, TRUE, List(<<Str(KSummary), Str(KSentiment)>>)),
      OtherBody(Quoted(KSummary \o <<" ">> \o KSentiment), TRUE,
                Str(KSummary \o <<" ">> \o KSentiment)),
      OtherBody(<<>>, FALSE, None),
      OtherBody(<<"n", "o", "p", "e">>, FALSE, None),
      OtherBody(<<"{">> \o QSummary \o <<":", " ">> \o Quoted(<<"s">>), FALSE, None),
      OtherBody(<<"{">> \o QSummary \o <<":", " ">> \o Quoted(<<"s">>) \o <<",", "}">>,
                FALSE, None) }

Bodies ==
    {ObjectBody(ms) : ms \in FullObjects \cup PartialObjects} \cup OtherBodies

WrapKinds == {"bare", "fence_json", "fence", "prose", "prose_braces"}
Wrappers == [kind : WrapKinds, pad : 0..MaxPad]

LangTag == <<"j", "s", "o", "n">>
Pad(n) == Repeat("\n", n)

\* the reply that puts text t inside wrapper w
Wrap(w, t) ==
    CASE w.kind = "bare" -> Pad(w.pad) \o t \o Pad(w.pad)
      [] w.kind = "fence_json" ->
            Fence \o LangTag \o Pad(w.pad) \o t \o Pad(w.pad) \o Fence
      [] w.kind = "fence" -> Fence \o Pad(w.pad) \o t \o Pad(w.pad) \o Fence
      [] w.kind = "prose" ->
            <<"o", "k", ":", " ">> \o Pad(w.pad) \o t \o Pad(w.pad) \o <<" ", "o", "k">>
      [] w.kind = "prose_braces" ->
            <<"{", "x", "}", " ">> \o Pad(w.pad) \o t \o Pad(w.pad) \o <<" ", "{", "y", "}">>

(***************************************************************************)
(* Transcripts. A transcript is held as the lengths of its leading         *)
(* whitespace, of its text from the first to the last character that is    *)
(* not whitespace, and of its trailing whitespace, so that the limits of   *)
(* 10,000 and 50,000 characters are within reach.                          *)
(***************************************************************************)
Transcript(lead, core, trail) == [lead |-> lead, core |-> core, trail |-> trail]

\* len(transcript)
TLen(tr) == tr.lead + tr.core + tr.trail

\* transcript.strip()
TStrip(tr) == Transcript(0, tr.core, 0)

\* lengths of the text at the two limits of the code and on either side
CoreLengths == {0, 1, 10000, 10001, 50000, 50001}

Transcripts == [lead : 0..1, core : CoreLengths, trail : 0..1]

\* empty or whitespace only
Blank(tr) == tr.core = 0

(***************************************************************************)
(* The entry points, as functions of what the network gives them: the      *)
(* outcome of requests.post and the reply text of a 2xx response.          *)
(***************************************************************************)
Returned(out, n) == [out |-> out, netCalls |-> n]

\* An analyze_with_groq that does not look for the key before it posts.
AppAnalyzeWithGroqNoKeyTest(key, post, rep) ==
    IF post \in {"Timeout", "ConnectionError"} THEN Returned(Failure(post, <<>>), 1)
    ELSE IF post = "HTTPError" THEN Returned(Failure("ApiError", <<>>), 1)
    ELSE Returned(AppRescue(rep), 1)

\* app.analyze_with_groq (app.py 19-120): one post, no retry
AppAnalyzeWithGroq(key, post, rep) ==
    IF ~key THEN Returned(Failure("MissingCredential", <<>>), 0)
    ELSE IF post \in {"Timeout", "ConnectionError"}
       THEN Returned(Failure(post, <<>>), 1)
    ELSE IF post = "HTTPError" THEN Returned(Failure("ApiError", <<>>), 1)
    ELSE Returned(AppRescue(rep), 1)

\* groq_utils.analyze_with_groq (groq_utils.py 227-273): no test of the
\* transcript, one post, no retry
CompatAnalyzeWithGroq(key, tr, post, rep) ==
    IF ~key THEN Returned(Failure("MissingCredential", <<>>), 0)
    ELSE IF post # "ok" THEN Returned(Failure(post, <<>>), 1)
    ELSE Returned(CompatRescue(rep), 1)

\* GroqTranscriptAnalyzer._validate_transcript (groq_utils.py 55-61)
ValidateTranscript(tr) == ~(TLen(tr) = 0 \/ TStrip(tr).core = 0)

\* groq_utils.py 59-60: logger.warning for a transcript that passed line 57
ValidateWarns(tr) == ValidateTranscript(tr) /\ TLen(tr) > 50000

\* A handler that turns away a stripped transcript of 10,000 characters too.
RouteValidateInclusive(tr) ==
    IF TLen(TStrip(tr)) = 0 THEN "required"
    ELSE IF TLen(TStrip(tr)) >= 10000 THEN "too_long"
    ELSE "ok"

\* the tests of the /analyze handler on the stripped transcript (app.py 1057-1063)
RouteValidate(tr) ==
    IF TLen(TStrip(tr)) = 0 THEN "required"
    ELSE IF TLen(TStrip(tr)) > 10000 THEN "too_long"
    ELSE "ok"

(***************************************************************************)
(* The log file. A cell is a part of a row: the header is row <<0, 0>>,    *)
(* the row of request n of thread t is <<t, n>>.                           *)
(***************************************************************************)
Cells(id, n) == [k \in 1..n |-> [row |-> id, part |-> k, of |-> n]]
HeaderId == <<0, 0>>
HeaderRow == Cells(HeaderId, HeaderCells)

\* write(2) of cells at offset pos of a file opened without O_APPEND
WriteAt(f, pos, cells) ==
    SubSeq(f, 1, pos) \o cells \o
        (IF pos + Len(cells) < Len(f) THEN SubSeq(f, pos + Len(cells) + 1, Len(f))
                                       ELSE <<>>)

\* write(2) on a file opened with O_APPEND
WriteAppend(f, cells) == f \o cells

(***************************************************************************)
(* _make_api_request: the retry loop.                                      *)
(*                                                                         *)
(* A requests.post followed by raise_for_status ends in one of: a 2xx      *)
(* response ("ok"), or a requests.exceptions.RequestException, which is a  *)
(* Timeout, a ConnectionError or the HTTPError raise_for_status raises on  *)
(* a non-2xx status.                                                       *)
(***************************************************************************)
RequestExceptions == {"Timeout", "ConnectionError", "HTTPError"}
PostOutcomes == {"ok"} \cup RequestExceptions

NoRet == [kind |-> "none", attempt |-> 0]

\* A backoff that grows by one base delay per retry instead of doubling.
BackoffDelayLinear(d, i) == d * (i + 1)

\* time.sleep(self.config.retry_delay * (2 ** attempt))
BackoffDelay(d, i) == d * Pow2(i)

\* A test that lets the last failed attempt sleep and go round once more.
AttemptsRemainOffByOne(i, r) == i < r

\* if attempt < self.config.max_retries - 1
AttemptsRemain(i, r) == i < r - 1

\* A loop that goes round once more than max_retries.
RetryLoopOneMore ==
    /\ rpc = "loop"
    /\ IF attempt <= max_retries
          THEN /\ rpc' = "post"
               /\ ret' = ret
          ELSE /\ rpc' = "raised"
               /\ ret' = [kind |-> "MaxRetriesExceeded", attempt |-> attempt]
    /\ UNCHANGED <<max_retries, retry_delay, attempt, attempts, sleeps>>
    /\ UNCHANGED <<rescueVars, api_key, server, batch, fsVars, threadVars, call>>

\* for attempt in range(self.config.max_retries): the loop test. When the range
\* is exhausted the loop ends and line 129 raises.
RetryLoop ==
    /\ rpc = "loop"
    /\ IF attempt < max_retries
          THEN /\ rpc' = "post"
               /\ ret' = ret
          ELSE /\ rpc' = "raised"
               /\ ret' = [kind |-> "MaxRetriesExceeded", attempt |-> attempt]
    /\ UNCHANGED <<max_retries, retry_delay, attempt, attempts, sleeps>>
    /\ UNCHANGED <<rescueVars, api_key, server, batch, fsVars, threadVars, call>>

\* A loop body whose success does not leave the loop.
RetryPostNoReturn(o) ==
    /\ rpc = "post"
    /\ attempts' = Append(attempts, o)
    /\ IF o = "ok"
          THEN /\ rpc' = "loop"
               /\ attempt' = attempt + 1
               /\ ret' = [kind |-> "response", attempt |-> attempt]
          ELSE /\ rpc' = "except"
               /\ UNCHANGED <<attempt, ret>>
    /\ UNCHANGED <<max_retries, retry_delay, sleeps>>
    /\ UNCHANGED <<rescueVars, api_key, server, batch, fsVars, threadVars, call>>

\* requests.post(...); response.raise_for_status(); return response.json()
RetryPost(o) ==
    /\ rpc = "post"
    /\ attempts' = Append(attempts, o)
    /\ IF o = "ok"
          THEN /\ rpc' = "returned"
               /\ ret' = [kind |-> "response", attempt |-> attempt]
          ELSE /\ rpc' = "except"
               /\ ret' = ret
    /\ UNCHANGED <<max_retries, retry_delay, attempt, sleeps>>
    /\ UNCHANGED <<rescueVars, api_key, server, batch, fsVars, threadVars, call>>

\* A handler without the re-raise: the last failure falls out of the loop.
RetryExceptNoReraise ==
    /\ rpc = "except"
    /\ IF AttemptsRemain(attempt, max_retries)
          THEN sleeps' = Append(sleeps, BackoffDelay(retry_delay, attempt))
          ELSE sleeps' = sleeps
    /\ attempt' = attempt + 1
    /\ rpc' = "loop"
    /\ ret' = ret
    /\ UNCHANGED <<max_retries, retry_delay, attempts>>
    /\ UNCHANGED <<rescueVars, api_key, server, batch, fsVars, threadVars, call>>

\* except requests.exceptions.RequestException: sleep and go round, or re-raise
RetryExcept ==
    /\ rpc = "except"
    /\ IF AttemptsRemain(attempt, max_retries)
          THEN /\ sleeps' = Append(sleeps, BackoffDelay(retry_delay, attempt))
               /\ attempt' = attempt + 1
               /\ rpc' = "loop"
               /\ ret' = ret
          ELSE /\ rpc' = "raised"
               /\ ret' = [kind |-> attempts[Len(attempts)], attempt |-> attempt]
               /\ UNCHANGED <<attempt, sleeps>>
    /\ UNCHANGED <<max_retries, retry_delay, attempts>>
    /\ UNCHANGED <<rescueVars, api_key, server, batch, fsVars, threadVars, call>>

\* no call of _make_api_request under way
RetryOff ==
    /\ rpc = "off"
    /\ max_retries = 0
    /\ retry_delay = 0
    /\ attempt = 0
    /\ attempts = <<>>
    /\ sleeps = <<>>
    /\ ret = NoRet

\* no reply under rescue
NoOutcome == [ok |-> FALSE, result |-> None, error |-> "none", text |-> <<>>]
RescueOff ==
    /\ body = OtherBody(<<>>, FALSE, None)
    /\ wrap = [kind |-> "bare", pad |-> 0]
    /\ reply = <<>>
    /\ rescuer = "off"
    /\ outcome = NoOutcome

\* two requests are served at the same time
Threads == {1, 2}

\* no row; faults counts the appends of the thread that raised
NoRow ==
    [id |-> HeaderId, len |-> 0, result |-> None, failed |-> FALSE, faults |-> 0]
NoResponse == [status |-> 0, out |-> NoOutcome, netCalls |-> 0]

\* no thread serving
ThreadsOff ==
    /\ tpc = [t \in Threads |-> "off"]
    /\ treq = [t \in Threads |-> 0]
    /\ trow = [t \in Threads |-> NoRow]
    /\ tresp = [t \in Threads |-> NoResponse]
    /\ appended = {}

\* no log file yet
NoFile ==
    /\ exists = FALSE
    /\ file = <<>>

\* no server process
NoServer == [launch |-> "none", pc |-> "off"]

\* no batch under way
NoBatch ==
    [pc |-> "off", n |-> 0, i |-> 0, inflight |-> {}, events |-> <<>>,
     results |-> <<>>]

NoCall ==
    [ep |-> "none", transcript |-> Transcript(0, 0, 0), pc |-> "off",
     netCalls |-> 0, out |-> NoOutcome, appends |-> 0, warned |-> FALSE,
     timeouts |-> <<>>, raised |-> FALSE, message |-> ""]

InitRetry ==
    /\ rpc = "loop"
    /\ max_retries \in (-1)..MaxRetries
    /\ retry_delay \in 1..MaxDelay
    /\ attempt = 0
    /\ attempts = <<>>
    /\ sleeps = <<>>
    /\ ret = NoRet
    /\ RescueOff
    /\ api_key = TRUE
    /\ NoFile
    /\ ThreadsOff
    /\ call = NoCall
    /\ server = NoServer
    /\ batch = NoBatch

NextRetry ==
    \/ RetryLoop
    \/ \E o \in PostOutcomes : RetryPost(o)
    \/ RetryExcept

SpecRetry == InitRetry /\ [][NextRetry]_vars

\* The thread that runs _make_api_request keeps running: requests.post returns
\* or raises within its timeout (groq_utils.py 115) and time.sleep ends, so a
\* step that can be taken is taken.
SpecRetryFair == SpecRetry /\ WF_vars(NextRetry)

(***************************************************************************)
(* One reply through one rescuer.                                          *)
(***************************************************************************)
Rescue(name, result) ==
    /\ rescuer = "none"
    /\ rescuer' = name
    /\ outcome' = result
    /\ UNCHANGED <<body, wrap, reply>>
    /\ UNCHANGED <<retryVars, api_key, server, batch, fsVars, threadVars, call>>

RescueApp == Rescue("app", AppRescue(reply))
RescueParseResponse == Rescue("parse_response", ParseResponse(reply))
RescueAnalyze == Rescue("analyze", AnalyzeRescue(reply))
RescueCompat == Rescue("compat", CompatRescue(reply))

InitRescue ==
    /\ body \in Bodies
    /\ wrap \in Wrappers
    /\ reply = Wrap(wrap, body.text)
    /\ rescuer = "none"
    /\ outcome = NoOutcome
    /\ RetryOff
    /\ api_key = TRUE
    /\ NoFile
    /\ ThreadsOff
    /\ call = NoCall
    /\ server = NoServer
    /\ batch = NoBatch

NextRescue ==
    \/ RescueApp
    \/ RescueParseResponse
    \/ RescueAnalyze
    \/ RescueCompat

SpecRescue == InitRescue /\ [][NextRescue]_vars

(***************************************************************************)
(* POST /analyze served by concurrent threads (app.py 1052-1085), with     *)
(* append_to_csv (app.py 122-146) cut at each of its file operations. What *)
(* comes before the append touches nothing shared and is one step.         *)
(***************************************************************************)
GoodReply ==
    ObjectText(<<StrMember(KSummary, <<"s">>), StrMember(KSentiment, Positive)>>)
PartialReply == ObjectText(<<StrMember(KSummary, <<"s">>)>>)
BadReply == <<"n", "o">>
RouteReplies == {GoodReply, PartialReply, BadReply}

\* a reply whose sentiment is a number
OddReply ==
    ObjectText(<<StrMember(KSummary, <<"s">>),
                 Member(KSentiment, <<"5">>, Num(<<"5">>))>>)
EntryReplies == RouteReplies \cup {OddReply}
RouteTranscripts == {Transcript(0, 0, 0), Transcript(1, 0, 1), Transcript(1, 1, 0)}

SetThread(f, t, x) == [f EXCEPT ![t] = x]

\* app.py is run as a script (python app.py), or imported as a module by the
\* server that runs its app object: the test of line 1097
Launches == {"script", "import"}

\* app.py 1097-1114: run as a script without a key the process exits; else, and
\* whenever the block is skipped, requests are served
Startup ==
    /\ server.pc = "starting"
    /\ server' = [server EXCEPT !.pc =
                      IF server.launch = "script" /\ ~api_key THEN "exited"
                                                              ELSE "serving"]
    /\ UNCHANGED <<retryVars, rescueVars, api_key, batch, fsVars, threadVars, call>>

\* the requests taken so far
Taken == treq[1] + treq[2]

\* A handler that goes on to append_to_csv whatever analyze_with_groq returned.
AfterAnalysisAlwaysAppend(out) == "check"

\* app.py 1068-1076: an error is answered at once, a result goes on to
\* append_to_csv
AfterAnalysis(out) == IF out.ok THEN "check" ELSE "idle"

\* app.py 1055-1072: the transcript is tested, analyze_with_groq is called
Receive(t, tr, post) ==
    /\ server.pc = "serving"
    /\ tpc[t] = "idle"
    /\ Taken < MaxRequests
    /\ treq' = SetThread(treq, t, treq[t] + 1)
    /\ IF RouteValidate(tr) # "ok"
          THEN /\ tresp' = SetThread(tresp, t,
                      [status |-> 400, out |-> Failure("InvalidInput", <<>>),
                       netCalls |-> 0])
               /\ UNCHANGED <<tpc, trow>>
          ELSE \E rep \in (IF api_key /\ post = "ok" THEN RouteReplies ELSE {<<>>}) :
               \E a \in {AppAnalyzeWithGroq(api_key, post, rep)} :
                 /\ tresp' = SetThread(tresp, t,
                        [status |-> IF a.out.ok THEN 0 ELSE 500, out |-> a.out,
                         netCalls |-> a.netCalls])
                 /\ tpc' = SetThread(tpc, t, AfterAnalysis(a.out))
                 /\ IF a.out.ok
                       THEN \E n \in 1..MaxRowCells :
                              trow' = SetThread(trow, t,
                                  [id |-> <<t, treq[t] + 1>>, len |-> n,
                                   result |-> a.out.result, failed |-> FALSE,
                                   faults |-> trow[t].faults])
                       ELSE UNCHANGED trow
    /\ UNCHANGED <<retryVars, rescueVars, api_key, server, batch, fsVars, appended, call>>

\* if not os.path.exists(csv_filename)
CsvCheck(t) ==
    /\ tpc[t] = "check"
    /\ tpc' = SetThread(tpc, t, IF exists THEN "open_a" ELSE "open_w")
    /\ UNCHANGED <<retryVars, rescueVars, api_key, server, batch, fsVars, treq, trow, tresp,
                   appended, call>>

\* open(csv_filename, 'w'): the file is created or cut to nothing
CsvOpenW(t) ==
    /\ tpc[t] = "open_w"
    /\ exists' = TRUE
    /\ file' = <<>>
    /\ tpc' = SetThread(tpc, t, "write_header")
    /\ UNCHANGED <<retryVars, rescueVars, api_key, server, batch, treq, trow, tresp, appended, call>>

\* writer.writerow(header) and the end of the with block: the buffered row is
\* written at the offset of the handle, which is 0
CsvWriteHeader(t) ==
    /\ tpc[t] = "write_header"
    /\ file' = WriteAt(file, 0, HeaderRow)
    /\ tpc' = SetThread(tpc, t, "open_a")
    /\ UNCHANGED <<retryVars, rescueVars, api_key, server, batch, exists, treq, trow, tresp,
                   appended, call>>

\* open(csv_filename, 'a')
CsvOpenA(t) ==
    /\ tpc[t] = "open_a"
    /\ exists' = TRUE
    /\ tpc' = SetThread(tpc, t, "write_row")
    /\ UNCHANGED <<retryVars, rescueVars, api_key, server, batch, file, treq, trow, tresp,
                   appended, call>>

\* writer.writerow(row) and the end of the with block: the buffered row is
\* written at the end of the file; append_to_csv returns
CsvWriteRow(t) ==
    /\ tpc[t] = "write_row"
    /\ file' = WriteAppend(file, Cells(trow[t].id, trow[t].len))
    /\ appended' = appended \cup {trow[t].id}
    /\ tpc' = SetThread(tpc, t, "respond")
    /\ UNCHANGED <<retryVars, rescueVars, api_key, server, batch, exists, treq, trow, tresp, call>>

\* open raises (the directory is gone, permission is denied): nothing is
\* written; append_to_csv re-raises (app.py 144-146) and the handler goes on
\* (app.py 1077-1078)
CsvOpenRaise(t) ==
    /\ tpc[t] \in {"open_w", "open_a"}
    /\ trow' = SetThread(trow, t, [trow[t] EXCEPT !.failed = TRUE,
                                                   !.faults = @ + 1])
    /\ tpc' = SetThread(tpc, t, "respond")
    /\ UNCHANGED <<retryVars, rescueVars, api_key, server, batch, fsVars, treq, tresp, appended, call>>

\* the write raises (the disk is full) after k cells of the row went out
CsvWriteRaise(t, k) ==
    /\ tpc[t] \in {"write_header", "write_row"}
    /\ IF tpc[t] = "write_header"
          THEN /\ k < HeaderCells
               /\ file' = WriteAt(file, 0, SubSeq(HeaderRow, 1, k))
          ELSE /\ k < trow[t].len
               /\ file' = WriteAppend(file, SubSeq(Cells(trow[t].id, trow[t].len), 1, k))
    /\ trow' = SetThread(trow, t, [trow[t] EXCEPT !.failed = TRUE,
                                                   !.faults = @ + 1])
    /\ tpc' = SetThread(tpc, t, "respond")
    /\ UNCHANGED <<retryVars, rescueVars, api_key, server, batch, exists, treq, tresp, appended, call>>

\* A handler that answers a failed append with an error.
RespondErrorOnFailedAppend(t) ==
    /\ tpc[t] = "respond"
    /\ tresp' = SetThread(tresp, t,
           IF trow[t].failed
              THEN [tresp[t] EXCEPT !.status = 500,
                                    !.out = Failure("ServerError", <<>>)]
              ELSE [tresp[t] EXCEPT !.status = 200])
    /\ tpc' = SetThread(tpc, t, "idle")
    /\ UNCHANGED <<retryVars, rescueVars, api_key, server, batch, fsVars, treq, trow, appended, call>>

\* return jsonify(result)
Respond(t) ==
    /\ tpc[t] = "respond"
    /\ tresp' = SetThread(tresp, t, [tresp[t] EXCEPT !.status = 200])
    /\ tpc' = SetThread(tpc, t, "idle")
    /\ UNCHANGED <<retryVars, rescueVars, api_key, server, batch, fsVars, treq, trow, appended, call>>

InitLog ==
    /\ api_key \in BOOLEAN
    /\ NoFile
    /\ tpc = [t \in Threads |-> "idle"]
    /\ treq = [t \in Threads |-> 0]
    /\ trow = [t \in Threads |-> NoRow]
    /\ tresp = [t \in Threads |-> NoResponse]
    /\ appended = {}
    /\ RetryOff
    /\ RescueOff
    /\ call = NoCall
    /\ server \in [launch : Launches, pc : {"starting"}]
    /\ batch = NoBatch

NextLog ==
    \/ Startup
    \/ \E t \in Threads :
        \/ \E tr \in RouteTranscripts, post \in PostOutcomes : Receive(t, tr, post)
        \/ CsvCheck(t)
        \/ CsvOpenW(t)
        \/ CsvWriteHeader(t)
        \/ CsvOpenA(t)
        \/ CsvWriteRow(t)
        \/ CsvOpenRaise(t)
        \/ \E k \in 0..(MaxRowCells - 1) : CsvWriteRaise(t, k)
        \/ Respond(t)

SpecLog == InitLog /\ [][NextLog]_vars

(***************************************************************************)
(* One call of one entry point that accepts a transcript: the /analyze     *)
(* route, GroqTranscriptAnalyzer.analyze (whose request goes through the   *)
(* retry loop above), or groq_utils.analyze_with_groq.                     *)
(***************************************************************************)
\* timeout=30 of app.py 52, and GroqConfig.timeout, in seconds
AppTimeout == 30
ConfigTimeout == 30

\* requests.post without a timeout argument waits without limit
NoTimeout == [limited |-> FALSE, seconds |-> 0]
Limit(n) == [limited |-> TRUE, seconds |-> n]

\* the timeout argument of the requests.post of each entry point (app.py 52,
\* groq_utils.py 115, groq_utils.py 255)
PostTimeout(ep) ==
    CASE ep = "route" -> Limit(AppTimeout)
      [] ep = "analyze" -> Limit(ConfigTimeout)
      [] OTHER -> NoTimeout

\* what a post can end in: with a timeout a server that never answers gives
\* Timeout, without one the call never comes back
PostsOf(ep) ==
    IF PostTimeout(ep) = NoTimeout THEN PostOutcomes \cup {"Hang"} ELSE PostOutcomes

\* The failure arises as an exception inside the entry point. In
\* app.analyze_with_groq requests.post raises and the validation of lines
\* 105-114 raises, the other failures are returned (app.py 22, 57, 102, 106); in
\* GroqTranscriptAnalyzer every failure is an exception (groq_utils.py 58, 116,
\* 127, 129, 154, 160, 172, and 53 in __init__); in groq_utils.analyze_with_groq
\* all are but those returned at lines 233, 267 and 270.
Thrown(ep, kind) ==
    CASE ep = "route" -> kind \in {"Timeout", "ConnectionError", "TypeError",
                                   "AttributeError"}
      [] ep = "compat" -> kind \notin {"MissingCredential", "ParseFailure",
                                       "SchemaViolation"}
      [] OTHER -> TRUE

\* Handlers that catch the exceptions of requests only.
HandlesRequestErrors(ep, kind) ==
    ep \in {"route", "analyze", "compat"} /\ kind \in RequestExceptions

\* "except Exception" around the body of app.analyze_with_groq (app.py 119), of
\* analyze (groq_utils.py 206) and of groq_utils.analyze_with_groq (272);
\* __init__ has no handler
Handles(ep, kind) == ep \in {"route", "analyze", "compat"}

\* the message a handler returns for an exception whose str() is empty, which
\* is the least it can be (app.py 120, groq_utils.py 207, 273)
HandlerMessage(ep) ==
    CASE ep = "route" -> "Unexpected error: "
      [] ep = "analyze" -> "Analysis failed: "
      [] OTHER -> ""

\* the message of a failure that is returned, not raised (app.py 22, 57, 102,
\* 106, 1060, 1063; groq_utils.py 233, 267, 270)
ReturnedMessage(ep, kind) ==
    CASE kind = "MissingCredential" -> "GROQ_API_KEY not found in environment variables."
      [] kind = "ApiError" -> "Groq API error"
      [] kind = "InvalidInput" -> "Transcript is required"
      [] kind = "ParseFailure" ->
            IF ep = "route" THEN "Could not parse JSON from response: "
                            ELSE "Failed to parse JSON response"
      [] kind = "SchemaViolation" ->
            IF ep = "route" THEN "Missing required fields in response: "
                            ELSE "Missing required fields in Groq response"
      [] OTHER -> ""

\* the error message of the pair returned: None, here "", with a result
Message(ep, out) ==
    IF out.ok THEN ""
    ELSE IF Thrown(ep, out.error) THEN HandlerMessage(ep)
    ELSE ReturnedMessage(ep, out.error)

\* appends counts the calls of append_to_csv, which only the handler makes and
\* only with a result (app.py 1068-1076); warned is kept as it was; timeouts
\* are the timeout arguments of the posts made; raised says that the entry
\* point raised to its caller
Done(ep, tr, r) ==
    [ep |-> ep, transcript |-> tr, pc |-> "done", netCalls |-> r.netCalls,
     out |-> r.out, appends |-> IF ep = "route" /\ r.out.ok THEN 1 ELSE 0,
     warned |-> call.warned,
     timeouts |-> [k \in 1..r.netCalls |-> PostTimeout(ep)],
     raised |-> /\ ~r.out.ok
                /\ Thrown(ep, r.out.error)
                /\ ~Handles(ep, r.out.error),
     message |-> Message(ep, r.out)]

\* the /analyze handler up to its response (app.py 1052-1085)
Route(key, tr, post, rep) ==
    IF RouteValidate(tr) # "ok" THEN Returned(Failure("InvalidInput", <<>>), 0)
    ELSE AppAnalyzeWithGroq(key, post, rep)

EnterRoute(tr, post, rep) ==
    /\ call.pc = "idle"
    /\ call' = Done("route", tr, Route(api_key, tr, post, rep))
    /\ UNCHANGED <<retryVars, rescueVars, api_key, server, batch, fsVars, threadVars>>

EnterCompat(tr, post, rep) ==
    /\ call.pc = "idle"
    /\ call' = IF api_key /\ post = "Hang"
                  THEN [call EXCEPT !.ep = "compat", !.transcript = tr,
                                    !.pc = "blocked", !.netCalls = 1,
                                    !.timeouts = <<PostTimeout("compat")>>]
                  ELSE Done("compat", tr,
                            CompatAnalyzeWithGroq(api_key, tr, post, rep))
    /\ UNCHANGED <<retryVars, rescueVars, api_key, server, batch, fsVars, threadVars>>

\* GroqTranscriptAnalyzer(...) (groq_utils.py 46-53): without a key it raises
\* and there is no analyzer
Construct ==
    /\ call.pc = "idle"
    /\ call' = IF ~api_key
                  THEN Done("init", call.transcript,
                            Returned(Failure("MissingCredential", <<>>), 0))
                  ELSE [call EXCEPT !.ep = "init", !.pc = "constructed"]
    /\ UNCHANGED <<retryVars, rescueVars, api_key, server, batch, fsVars, threadVars>>

\* GroqTranscriptAnalyzer.analyze, lines 186 and 189: the transcript is tested
\* and _make_api_request is entered
EnterAnalyze(tr, r, d) ==
    /\ call.pc = "constructed"
    /\ IF ~ValidateTranscript(tr)
          THEN /\ call' = Done("analyze", tr,
                               Returned(Failure("InvalidInput", <<>>), 0))
               /\ UNCHANGED retryVars
          ELSE /\ call' = [call EXCEPT !.ep = "analyze", !.transcript = tr,
                                       !.pc = "request",
                                       !.warned = ValidateWarns(tr)]
               /\ rpc' = "loop"
               /\ max_retries' = r
               /\ retry_delay' = d
               /\ UNCHANGED <<attempt, attempts, sleeps, ret>>
    /\ UNCHANGED <<rescueVars, api_key, server, batch, fsVars, threadVars>>

\* GroqTranscriptAnalyzer.analyze, lines 192-209: _make_api_request has
\* returned or raised
AnalyzeReturn(rep) ==
    /\ call.pc = "request"
    /\ rpc \in {"returned", "raised"}
    /\ call' = Done("analyze", call.transcript,
                    Returned(IF rpc = "returned" THEN AnalyzeRescue(rep)
                                                 ELSE Failure(ret.kind, <<>>),
                             Len(attempts)))
    /\ UNCHANGED <<retryVars, rescueVars, api_key, server, batch, fsVars, threadVars>>

InitEntry ==
    /\ api_key \in BOOLEAN
    /\ call = [NoCall EXCEPT !.pc = "idle"]
    /\ RetryOff
    /\ RescueOff
    /\ NoFile
    /\ ThreadsOff
    /\ server = NoServer
    /\ batch = NoBatch

NextEntry ==
    \/ \E tr \in Transcripts, post \in PostsOf("route"), rep \in EntryReplies :
          EnterRoute(tr, post, rep)
    \/ \E tr \in Transcripts, post \in PostsOf("compat"), rep \in EntryReplies :
          EnterCompat(tr, post, rep)
    \/ Construct
    \/ \E tr \in Transcripts, r \in 0..MaxRetries, d \in 1..MaxDelay :
          EnterAnalyze(tr, r, d)
    \/ RetryLoop
    \/ \E o \in PostOutcomes : RetryPost(o)
    \/ RetryExcept
    \/ \E rep \in EntryReplies : AnalyzeReturn(rep)

SpecEntry == InitEntry /\ [][NextEntry]_vars

(***************************************************************************)
(* analyze_batch (groq_utils.py 211-225) over n transcripts, numbered from *)
(* 0 as enumerate numbers them. analyze never raises (groq_utils.py        *)
(* 206-209): it returns a result or an error.                              *)
(***************************************************************************)
AnalyzeOutcomes ==
    {"result", "InvalidInput", "NetworkFailure", "ParseFailure", "SchemaViolation"}

\* time.sleep(0.5), in tenths of a second
BatchDelay == 5

\* A test that is also true of the last transcript.
MoreTranscriptsOrLast(i, n) == i < n

\* if i < len(transcripts) - 1
MoreTranscripts(i, n) == i < n - 1

\* for i, transcript in enumerate(transcripts): the loop test, and the call of
\* self.analyze(transcript)
BatchLoop ==
    /\ batch.pc = "loop"
    /\ batch' = IF batch.i < batch.n
                   THEN [batch EXCEPT !.pc = "analyze",
                                      !.inflight = @ \cup {batch.i},
                                      !.events = Append(@, <<"start", batch.i>>)]
                   ELSE [batch EXCEPT !.pc = "returned"]
    /\ UNCHANGED <<retryVars, rescueVars, api_key, server, fsVars, threadVars, call>>

\* A loop that a failed analysis ends.
BatchAnalyzedStopsOnError(r) ==
    /\ batch.pc = "analyze"
    /\ batch' = [batch EXCEPT !.pc = IF r = "result" THEN "rate_limit"
                                                     ELSE "returned",
                              !.inflight = @ \ {batch.i},
                              !.events = Append(@, <<"end", batch.i>>),
                              !.results = Append(@, [index |-> batch.i, out |-> r])]
    /\ UNCHANGED <<retryVars, rescueVars, api_key, server, fsVars, threadVars, call>>

\* self.analyze(transcript) returns; results.append(result)
BatchAnalyzed(r) ==
    /\ batch.pc = "analyze"
    /\ batch' = [batch EXCEPT !.pc = "rate_limit",
                              !.inflight = @ \ {batch.i},
                              !.events = Append(@, <<"end", batch.i>>),
                              !.results = Append(@, [index |-> batch.i, out |-> r])]
    /\ UNCHANGED <<retryVars, rescueVars, api_key, server, fsVars, threadVars, call>>

\* if i < len(transcripts) - 1: time.sleep(0.5); then the next round
BatchRateLimit ==
    /\ batch.pc = "rate_limit"
    /\ batch' = [batch EXCEPT !.pc = "loop",
                              !.i = @ + 1,
                              !.events = IF MoreTranscripts(batch.i, batch.n)
                                            THEN Append(@, <<"sleep", BatchDelay>>)
                                            ELSE @]
    /\ UNCHANGED <<retryVars, rescueVars, api_key, server, fsVars, threadVars, call>>

InitBatch ==
    /\ batch \in {[NoBatch EXCEPT !.pc = "loop", !.n = n] : n \in 0..MaxBatch}
    /\ api_key = TRUE
    /\ server = NoServer
    /\ call = NoCall
    /\ RetryOff
    /\ RescueOff
    /\ NoFile
    /\ ThreadsOff

NextBatch ==
    \/ BatchLoop
    \/ \E r \in AnalyzeOutcomes : BatchAnalyzed(r)
    \/ BatchRateLimit

SpecBatch == InitBatch /\ [][NextBatch]_vars

\* ======================================================================
\* The claims.
\* ======================================================================

AllFailed == \A k \in 1..Len(attempts) : attempts[k] \in RequestExceptions

\* C2: when every attempt fails and max_retries = R >= 1, _make_api_request
\* makes exactly R attempts and then raises the last underlying failure, having
\* slept R-1 times: there is no sleep after the last failed attempt.
C2_ExhaustedRaisesLast ==
    (max_retries >= 1 /\ AllFailed) =>
        /\ Len(attempts) <= max_retries
        /\ Len(sleeps) <= max_retries - 1
        /\ rpc = "raised" =>
              /\ Len(attempts) = max_retries
              /\ Len(sleeps) = max_retries - 1
              /\ ret.kind \in RequestExceptions
              /\ ret.kind = attempts[Len(attempts)]

C2_Witness ==
    /\ rpc = "raised"
    /\ max_retries = 3
    /\ attempts = <<"Timeout", "ConnectionError", "HTTPError">>
    /\ ret.kind = "HTTPError"

\* C3: when the call fails k-1 times and succeeds on attempt k, exactly k
\* attempts are made, the response of attempt k is returned, and nothing (no
\* attempt, no sleep) follows the success: a success is always the last attempt,
\* the call has returned with it, and the sleeps are the k-1 between attempts.
C3_SuccessReturnsAtOnce ==
    \A k \in 1..Len(attempts) :
        attempts[k] = "ok" =>
            /\ k = Len(attempts)
            /\ k <= max_retries
            /\ rpc = "returned"
            /\ ret = [kind |-> "response", attempt |-> k - 1]
            /\ Len(sleeps) = k - 1

C3_Witness ==
    /\ rpc = "returned"
    /\ max_retries = 3
    /\ attempts = <<"Timeout", "HTTPError", "ok">>
    /\ Len(sleeps) = 2

\* C4: the sleep after failed attempt number i (from 0) is exactly D * 2^i: the
\* first wait is D and every later wait is twice the one before, and the waits
\* made are those after the failed attempts that had attempts remaining.
C4_ExponentialBackoff ==
    /\ \A j \in 1..Len(sleeps) :
          /\ sleeps[j] = retry_delay * (2 ^ (j - 1))
          /\ j = 1 => sleeps[j] = retry_delay
          /\ j > 1 => sleeps[j] = 2 * sleeps[j - 1]
          /\ attempts[j] \in RequestExceptions
    /\ Len(sleeps) \in {Len(attempts) - 1, Len(attempts)} \cup {0}

C4_Witness ==
    /\ retry_delay = 2
    /\ sleeps = <<2, 4, 8>>

\* ---------------------------------------------------------------------
\* The rescuers (SpecRescue).
\* ---------------------------------------------------------------------

\* a result that is an object whose sentiment is one of the three values
SentimentEnumerated(r) ==
    /\ r.t = "dict"
    /\ KSentiment \in DOMAIN r.v
    /\ r.v[KSentiment].t = "str"
    /\ r.v[KSentiment].v \in ValidSentiments

\* the body is a JSON object that has both required members
HasRequired ==
    /\ body.kind = "object"
    /\ KSummary \in DOMAIN body.val.v
    /\ KSentiment \in DOMAIN body.val.v

\* its sentiment is positive, negative or neutral in some mix of cases
SentimentIsVariant ==
    /\ body.val.v[KSentiment].t = "str"
    /\ Lower(body.val.v[KSentiment].v) \in ValidSentiments

\* C1: every successful result, whichever entry point produced it, has a
\* sentiment that is exactly positive, negative or neutral.
C1_SentimentAlwaysEnumerated ==
    (rescuer \in {"app", "parse_response", "analyze", "compat"} /\ outcome.ok)
        => SentimentEnumerated(outcome.result)

\* What holds of the code: the same for the entry points other than
\* groq_utils.analyze_with_groq.
C1_EnumeratedButCompat ==
    (rescuer \in {"app", "parse_response", "analyze"} /\ outcome.ok)
        => SentimentEnumerated(outcome.result)

\* C8: a reply that is a valid JSON object with summary and a sentiment that is
\* a case variant of positive, negative or neutral comes back with every member
\* unchanged but sentiment, which is the lower-cased value.
C8_UnchangedButLowerCased ==
    (/\ rescuer \in {"app", "parse_response"}
     /\ wrap.kind = "bare"
     /\ HasRequired
     /\ SentimentIsVariant)
        => /\ outcome.ok
           /\ outcome.result =
                Dict(DictSet(body.val.v, KSentiment,
                             Str(Lower(body.val.v[KSentiment].v))))

\* What holds of the code: the same for app.analyze_with_groq alone.
C8_AppLowerCases ==
    (rescuer = "app" /\ wrap.kind = "bare" /\ HasRequired /\ SentimentIsVariant)
        => /\ outcome.ok
           /\ outcome.result =
                Dict(DictSet(body.val.v, KSentiment,
                             Str(Lower(body.val.v[KSentiment].v))))

\* C9: a parsed reply with summary and a sentiment outside the three values,
\* text or not, succeeds with sentiment neutral: a mismatch is never an error.
C9_MismatchBecomesNeutral ==
    (/\ rescuer \in {"app", "parse_response", "analyze"}
     /\ wrap.kind = "bare"
     /\ HasRequired
     /\ ~SentimentIsVariant)
        => /\ outcome.ok
           /\ outcome.result.v[KSentiment] = Str(Neutral)

\* What holds of the code: the same for GroqTranscriptAnalyzer alone.
C9_AnalyzerNeutral ==
    (/\ rescuer \in {"parse_response", "analyze"}
     /\ wrap.kind = "bare"
     /\ HasRequired
     /\ ~SentimentIsVariant)
        => /\ outcome.ok
           /\ outcome.result.v[KSentiment] = Str(Neutral)

\* C10: a valid object with summary and sentiment inside triple-backtick
\* fences, with or without a language tag, is rescued to what the object alone
\* is rescued to.
C10_FencedSameAsBare ==
    (/\ rescuer \in {"app", "parse_response"}
     /\ wrap.kind \in {"fence", "fence_json"}
     /\ HasRequired)
        => outcome = IF rescuer = "app" THEN AppRescue(body.text)
                                        ELSE ParseResponse(body.text)

\* What holds of the code: the same when the opening fence carries the tag json.
C10_JsonFencedSameAsBare ==
    (/\ rescuer \in {"app", "parse_response"}
     /\ wrap.kind = "fence_json"
     /\ HasRequired)
        => outcome = IF rescuer = "app" THEN AppRescue(body.text)
                                        ELSE ParseResponse(body.text)

\* the rescuer that ran, applied to text t
Rescued(t) ==
    CASE rescuer = "app" -> AppRescue(t)
      [] rescuer = "parse_response" -> ParseResponse(t)
      [] rescuer = "analyze" -> AnalyzeRescue(t)
      [] rescuer = "compat" -> CompatRescue(t)

\* C11: a valid object with summary and sentiment inside prose, whatever braces
\* its values or the prose hold, is rescued to what the object alone is
\* rescued to.
C11_ProseSameAsBare ==
    (/\ rescuer \in {"app", "parse_response", "compat"}
     /\ wrap.kind \in {"prose", "prose_braces"}
     /\ HasRequired)
        => outcome = Rescued(body.text)

\* no strategy of app.analyze_with_groq gets JSON out of raw
AppNoJson(raw) ==
    LET c == Strip(raw)
        match == AppSearch(c)
    IN  /\ ~JsonLoads(c).ok
        /\ ~JsonLoads(StripFence(c)).ok
        /\ ~(match.found /\ JsonLoads(match.text).ok)

\* no strategy of _parse_response gets JSON out of raw
AnalyzerNoJson(raw) ==
    LET c == StripFence(Strip(raw))
        g == GreedySearch(c)
    IN  /\ ~JsonLoads(c).ok
        /\ ~(g.found /\ JsonLoads(g.text).ok)

\* text t holds the reply, but for the whitespace around it
CarriesReply(t) == FindSub(t, Strip(reply), 1, Len(t)) # 0

\* C12: when no strategy gets JSON out of the reply, the rescuer fails with
\* ParseFailure and the error holds the text of the reply.
C12_ParseFailureCarriesText ==
    (\/ rescuer = "app" /\ AppNoJson(reply)
     \/ rescuer = "parse_response" /\ AnalyzerNoJson(reply))
        => /\ ~outcome.ok
           /\ outcome.error = "ParseFailure"
           /\ CarriesReply(outcome.text)

\* What holds of the code: the same for app.analyze_with_groq alone.
C12_AppCarriesText ==
    (rescuer = "app" /\ AppNoJson(reply))
        => /\ ~outcome.ok
           /\ outcome.error = "ParseFailure"
           /\ CarriesReply(outcome.text)

\* C13: a reply that is a JSON value without summary or without sentiment, the
\* empty object included, fails with SchemaViolation and gives no result.
C13_MissingIsSchemaViolation ==
    (/\ rescuer \in {"app", "parse_response"}
     /\ wrap.kind = "bare"
     /\ body.valid
     /\ ~HasRequired)
        => /\ ~outcome.ok
           /\ outcome.error = "SchemaViolation"

\* What holds of the code: no such reply gives a result from
\* app.analyze_with_groq or GroqTranscriptAnalyzer, whatever the error.
C13_MissingNeverSucceeds ==
    (/\ rescuer \in {"app", "parse_response", "analyze"}
     /\ wrap.kind = "bare"
     /\ body.valid
     /\ ~HasRequired)
        => ~outcome.ok

\* C20: when the whole reply parses as JSON, whatever the value, no method
\* after the direct parse runs and the value it gave is the one validated.
C20_DirectParseStops ==
    /\ (rescuer = "app" /\ JsonLoads(Strip(reply)).ok)
          => /\ AppParse(reply).tried = <<"direct">>
             /\ outcome = AppValidate(JsonLoads(Strip(reply)).val)
    /\ (rescuer = "parse_response" /\ JsonLoads(Strip(reply)).ok)
          => outcome = AnalyzerValidate(JsonLoads(Strip(reply)).val)

\* What holds of the code: the same for _parse_response, and for
\* app.analyze_with_groq when the value is not empty, zero, false or null.
C20_TruthyDirectParseStops ==
    /\ (/\ rescuer = "app"
        /\ JsonLoads(Strip(reply)).ok
        /\ Truthy(JsonLoads(Strip(reply)).val))
          => /\ AppParse(reply).tried = <<"direct">>
             /\ outcome = AppValidate(JsonLoads(Strip(reply)).val)
    /\ (rescuer = "parse_response" /\ JsonLoads(Strip(reply)).ok)
          => outcome = AnalyzerValidate(JsonLoads(Strip(reply)).val)

(***************************************************************************)
(* The log file under concurrent requests.                                 *)
(***************************************************************************)
\* a complete row starts at position i of f
RowAt(f, i) ==
    /\ f[i].part = 1
    /\ i + f[i].of - 1 <= Len(f)
    /\ \A k \in 1..f[i].of : f[i + k - 1] = [f[i] EXCEPT !.part = k]

\* the cells of f from position i on are complete rows, one after the other
RECURSIVE WholeFrom(_, _)
WholeFrom(f, i) ==
    IF i > Len(f) THEN TRUE
    ELSE RowAt(f, i) /\ WholeFrom(f, i + f[i].of)

\* where the complete rows of request id start in f
RowsOf(f, id) == {i \in 1..Len(f) : f[i].row = id /\ RowAt(f, i)}

\* no open and no write has raised
NoFault == \A t \in Threads : trow[t].faults = 0

\* C5: with two requests appending at the same time, the log file is at every
\* moment a whole number of complete rows, none of them holding cells of two
\* writes, as long as no open and no write raises.
C5_WholeRows == NoFault => WholeFrom(file, 1)

\* C6: every request whose append has completed has exactly one row in the log
\* file, at every later moment, as long as no open and no write raises.
C6_OneRowPerAppend ==
    NoFault => \A id \in appended : Cardinality(RowsOf(file, id)) = 1

\* thread t is inside append_to_csv
InAppend(t) == tpc[t] \in {"check", "open_w", "write_header", "open_a", "write_row"}

\* C14: when the analysis succeeded and append_to_csv raised, the handler
\* answers 200 with the result of the analysis, as it does after an append
\* that went through.
C14_FailedAppendStillAnswers ==
    [][\A t \in Threads :
          (tpc[t] = "respond" /\ tpc'[t] = "idle" /\ trow[t].failed)
              => tresp'[t] = [status |-> 200, out |-> Success(trow[t].result),
                              netCalls |-> tresp[t].netCalls]]_vars

C14_Witness ==
    \E t \in Threads :
        /\ tpc[t] = "idle"
        /\ trow[t].failed
        /\ tresp[t].status = 200
        /\ tresp[t].out = Success(trow[t].result)

\* C15: a request that ends in an error never enters append_to_csv and its
\* step leaves the log file as it was; a thread inside append_to_csv holds a
\* result that analyze_with_groq returned without error.
C15_ErrorsLeaveLogAlone ==
    /\ [](\A t \in Threads : InAppend(t) => tresp[t].out.ok)
    /\ [][\A t \in Threads :
            (treq'[t] # treq[t] /\ ~tresp'[t].out.ok)
                => /\ tresp'[t].status \in {400, 500}
                   /\ tpc'[t] = "idle"
                   /\ file' = file
                   /\ exists' = exists]_vars

C15_Witness ==
    \E t \in Threads :
        /\ tpc[t] = "idle"
        /\ tresp[t].status = 500
        /\ tresp[t].out.error = "ParseFailure"
        /\ file # <<>>

(***************************************************************************)
(* Blank transcripts.                                                      *)
(***************************************************************************)
\* C7: at every entry point, a call with an empty or whitespace-only
\* transcript ends in InvalidInput with no request sent.
C7_BlankIsInvalidInput ==
    (/\ call.pc = "done"
     /\ call.ep \in {"route", "analyze", "compat"}
     /\ Blank(call.transcript))
        => (call.out.error = "InvalidInput" /\ call.netCalls = 0)

(***************************************************************************)
(* Non-2xx replies.                                                        *)
(***************************************************************************)
\* C16: a non-2xx status is retried like a timeout: _make_api_request raises
\* it only after max_retries attempts and the sleeps between them, and the
\* /analyze route answers with it only after a sleep and another attempt.
C16_Non2xxIsRetried ==
    /\ (rpc = "raised" /\ ret.kind = "HTTPError")
          => (Len(attempts) = max_retries /\ Len(sleeps) = max_retries - 1)
    /\ (call.pc = "done" /\ call.ep = "route" /\ call.out.error = "ApiError")
          => call.netCalls > 1

\* What holds of the code: the same for _make_api_request alone.
C16_AnalyzerRetriesNon2xx ==
    (rpc = "raised" /\ ret.kind = "HTTPError")
        => (Len(attempts) = max_retries /\ Len(sleeps) = max_retries - 1)

(***************************************************************************)
(* analyze_batch.                                                          *)
(***************************************************************************)
\* what a batch of n transcripts does up to and with transcript i: each
\* analysis from start to end, a delay between one and the next
RECURSIVE BatchEvents(_)
BatchEvents(i) ==
    IF i < 0 THEN <<>>
    ELSE BatchEvents(i - 1)
         \o (IF i > 0 THEN <<<<"sleep", BatchDelay>>>> ELSE <<>>)
         \o <<<<"start", i>>, <<"end", i>>>>

IsPrefix(p, q) == Len(p) <= Len(q) /\ SubSeq(q, 1, Len(p)) = p

Delays(events) == {k \in 1..Len(events) : events[k][1] = "sleep"}

\* C17: analyze_batch analyses its n transcripts one after the other in the
\* order given, never two at a time, with a delay of 0.5 s between one and the
\* next: n-1 delays, none after the last.
C17_BatchSequential ==
    /\ Cardinality(batch.inflight) <= 1
    /\ IsPrefix(batch.events, BatchEvents(batch.n - 1))
    /\ batch.pc = "returned" =>
          /\ batch.events = BatchEvents(batch.n - 1)
          /\ Len(batch.results) = batch.n
          /\ \A k \in 1..batch.n : batch.results[k].index = k - 1
          /\ batch.n >= 1 => Cardinality(Delays(batch.events)) = batch.n - 1

C17_Witness ==
    /\ batch.pc = "returned"
    /\ batch.n >= 2
    /\ Cardinality(Delays(batch.events)) = batch.n - 1

(***************************************************************************)
(* No API key.                                                             *)
(***************************************************************************)
\* C18: without a key no request is sent: app.analyze_with_groq and
\* groq_utils.analyze_with_groq return MissingCredential, and
\* GroqTranscriptAnalyzer(...) raises it, so that no analyze is ever called.
C18_NoKeyNoCall ==
    ~api_key =>
        /\ rpc = "off"
        /\ call.pc \notin {"constructed", "request"}
        /\ call.ep # "analyze"
        /\ (/\ call.pc = "done"
            /\ \/ call.ep \in {"init", "compat"}
               \/ call.ep = "route" /\ RouteValidate(call.transcript) = "ok")
              => (call.out.error = "MissingCredential" /\ call.netCalls = 0)

C18_Witness ==
    /\ ~api_key
    /\ call.pc = "done"
    /\ call.ep = "route"
    /\ call.out.error = "MissingCredential"
    /\ call.netCalls = 0

(***************************************************************************)
(* Startup without a key.                                                  *)
(***************************************************************************)
\* C19: no /analyze request is ever taken while the key is absent: the process
\* has exited before it serves.
C19_NeverServesWithoutKey ==
    ~api_key => (server.pc # "serving" /\ \A t \in Threads : treq[t] = 0)

\* What holds of the code: the same when app.py is run as a script.
C19_ScriptNeverServesWithoutKey ==
    (~api_key /\ server.launch = "script")
        => (server.pc # "serving" /\ \A t \in Threads : treq[t] = 0)

(***************************************************************************)
(* Pattern extraction, optional fields, length limits.                     *)
(***************************************************************************)
\* the narrow pattern gives a parsed object
NarrowYields(content) ==
    Only({n.found /\ JsonLoads(n.text).ok : n \in {NarrowSearch(content)}})

\* json.loads of the text from the first "{" to the last "}"
OutermostParse(content) ==
    Only({IF g.found THEN JsonLoads(g.text) ELSE JsonFail :
            g \in {GreedySearch(content)}})

\* app.analyze_with_groq as it stands before Method 3
AppBeforePattern(raw) == AppMethod2(AppMethod1(AppStart(raw)))

\* C21: when pattern extraction runs and the narrow summary/sentiment pattern
\* gives no parsed object (no match, or a match that is not JSON), what is parsed
\* is the text from the first "{" to the last "}" of the reply.
C21_FallbackIsOutermost ==
    /\ (/\ rescuer = "app"
        /\ ~Truthy(AppBeforePattern(reply).result)
        /\ ~NarrowYields(Strip(reply)))
          => outcome = AppFinish(AppTried(AppBeforePattern(reply), "pattern",
                                          OutermostParse(Strip(reply))))
    /\ (rescuer = "parse_response" /\ ~JsonLoads(StripFence(Strip(reply))).ok)
          => outcome = AnalyzerExtract(StripFence(Strip(reply)))

OptionalFields == {KConfidence, KTopics, KWordCount}

\* C22: in a successful result of app.analyze_with_groq and of
\* GroqTranscriptAnalyzer.analyze, confidence_score, key_topics and word_count
\* are the values of the parsed reply, of whatever type, when it has them, and
\* are absent (the dict of app.py) or None (the AnalysisResult) when it has not.
C22_OptionalFieldsPassThrough ==
    (rescuer \in {"app", "analyze"} /\ outcome.ok)
        => /\ body.kind = "object"
           /\ \A k \in OptionalFields :
                IF rescuer = "analyze"
                THEN outcome.result.v[k] = Get(body.val.v, k)
                ELSE /\ (k \in DOMAIN outcome.result.v) = (k \in DOMAIN body.val.v)
                     /\ Get(outcome.result.v, k) = Get(body.val.v, k)

\* an AnalysisResult whose confidence_score is a string and whose word_count is
\* negative, as the reply had them, with no key_topics
C22_Witness ==
    /\ rescuer = "analyze"
    /\ outcome.ok
    /\ outcome.result.v[KConfidence] = Str(<<"h">>)
    /\ outcome.result.v[KWordCount] = Num(<<"-", "1">>)
    /\ outcome.result.v[KTopics] = None

\* C23: the /analyze handler turns away a transcript of more than 10,000
\* characters after trimming, with no network call and no call of append_to_csv,
\* and lets one of exactly 10,000 through to the analysis;
\* GroqTranscriptAnalyzer.analyze turns no transcript away for its length and
\* warns exactly when the transcript, untrimmed, is longer than 50,000.
C23_LengthLimits ==
    /\ (call.pc = "done" /\ call.ep = "route" /\ call.transcript.core > 10000)
          => /\ ~call.out.ok
             /\ call.out.error = "InvalidInput"
             /\ call.netCalls = 0
             /\ call.appends = 0
    /\ (/\ call.pc = "done"
        /\ call.ep = "route"
        /\ call.transcript.core \in 1..10000)
          => /\ call.out.error # "InvalidInput"
             /\ api_key => call.netCalls = 1
    /\ (/\ call.ep = "analyze"
        /\ call.pc \in {"request", "done"}
        /\ ~Blank(call.transcript))
          => /\ call.out.error # "InvalidInput"
             /\ call.warned = (TLen(call.transcript) > 50000)

\* 10,001 characters between two of whitespace are turned away
C23_Witness ==
    /\ call.pc = "done"
    /\ call.ep = "route"
    /\ call.transcript = Transcript(1, 10001, 1)
    /\ call.out.error = "InvalidInput"
    /\ call.netCalls = 0

(***************************************************************************)
(* The header of the log file.                                             *)
(***************************************************************************)
\* the first row of f is the header and no other cell of f is a header cell
HeaderFirstOnce(f) ==
    /\ Len(f) >= HeaderCells
    /\ SubSeq(f, 1, HeaderCells) = HeaderRow
    /\ \A i \in (HeaderCells + 1)..Len(f) : f[i].row # HeaderId

\* C24: whenever the log file exists and holds anything, under one request at a
\* time and under two at the same time, its first row is the header and the
\* header is in it once, as long as no open and no write raises.
C24_HeaderFirstOnce ==
    (NoFault /\ exists /\ file # <<>>) => HeaderFirstOnce(file)

\* What holds of the code: the same once no thread is inside append_to_csv.
C24_HeaderFirstOnceAtRest ==
    (NoFault /\ exists /\ \A t \in Threads : ~InAppend(t)) => HeaderFirstOnce(file)

(***************************************************************************)
(* The end of the retry loop.                                              *)
(***************************************************************************)
\* max(a, b)
Larger(a, b) == IF a >= b THEN a ELSE b

\* C25: whatever max_retries is and however the attempts end (2xx, timeout,
\* connection error, non-2xx), _make_api_request comes to return a response or
\* to raise, and at no moment has it made more than max_retries attempts or
\* slept more than max_retries - 1 times (none of either when max_retries is 0
\* or less).
C25_RetryTerminates ==
    /\ <>(rpc \in {"returned", "raised"})
    /\ [](/\ Len(attempts) <= Larger(max_retries, 0)
          /\ Len(sleeps) <= Larger(max_retries - 1, 0))

\* the longest call: every attempt but the last failed, the last returned
C25_Witness ==
    /\ rpc = "returned"
    /\ max_retries = MaxRetries
    /\ Len(attempts) = MaxRetries
    /\ Len(sleeps) = MaxRetries - 1

(***************************************************************************)
(* Timeouts.                                                               *)
(***************************************************************************)
\* C26: every post to the provider, from the /analyze handler, from
\* GroqTranscriptAnalyzer.analyze (each attempt of the retry loop) and from
\* groq_utils.analyze_with_groq, is made with a timeout, the whole configured
\* one each time, and no call stays blocked in a post.
C26_EveryPostHasTimeout ==
    /\ call.pc # "blocked"
    /\ \A k \in 1..Len(call.timeouts) : call.timeouts[k].limited
    /\ (call.pc = "done" /\ call.ep = "analyze")
          => call.timeouts = [k \in 1..Len(attempts) |-> Limit(ConfigTimeout)]

\* What holds of the code: the same for the handler and the analyzer.
C26_AppAndAnalyzerHaveTimeout ==
    call.ep \in {"route", "analyze"}
        => /\ call.pc # "blocked"
           /\ \A k \in 1..Len(call.timeouts) : call.timeouts[k].limited
           /\ call.pc = "done" /\ call.ep = "analyze"
                 => call.timeouts = [k \in 1..Len(attempts) |-> Limit(ConfigTimeout)]

(***************************************************************************)
(* What the entry points hand back.                                        *)
(***************************************************************************)
\* C27: app.analyze_with_groq (called by the handler with a transcript it
\* accepted) and GroqTranscriptAnalyzer.analyze never raise to their caller, and
\* return either a result with no error message or no result with an error
\* message that is not empty, for every transcript, network outcome and reply.
C27_NeverRaisesOneOfPair ==
    (/\ call.pc = "done"
     /\ \/ call.ep = "analyze"
        \/ call.ep = "route" /\ RouteValidate(call.transcript) = "ok")
        => /\ ~call.raised
           /\ call.out.ok => (call.out.result # None /\ call.message = "")
           /\ ~call.out.ok => (call.out.result = None /\ call.message # "")

\* the reply's sentiment is a number, .lower() raises AttributeError inside
\* app.analyze_with_groq, and the caller gets a message
C27_Witness ==
    /\ call.pc = "done"
    /\ call.ep = "route"
    /\ call.out.error = "AttributeError"
    /\ ~call.raised
    /\ call.message = "Unexpected error: "

\* C28: with max_retries 0 or less _make_api_request makes no attempt and no
\* sleep and raises "Max retries exceeded"; and that raise of line 129 happens
\* in no other case, never after an attempt.
C28_GenericRaiseOnlyWithoutAttempts ==
    /\ max_retries <= 0
          => /\ attempts = <<>>
             /\ sleeps = <<>>
             /\ rpc # "returned"
             /\ rpc = "raised" => ret.kind = "MaxRetriesExceeded"
    /\ ret.kind = "MaxRetriesExceeded"
          => (max_retries <= 0 /\ attempts = <<>> /\ rpc = "raised")

C28_Witness ==
    /\ rpc = "raised"
    /\ max_retries = -1
    /\ ret.kind = "MaxRetriesExceeded"
    /\ attempts = <<>>

(***************************************************************************)
(* The results of a batch.                                                 *)
(***************************************************************************)
\* the transcripts whose analysis has begun
Started(events) == {events[k][2] : k \in {j \in 1..Len(events) : events[j][1] = "start"}}

\* C29: analyze_batch returns one pair for each transcript, in the order of the
\* transcripts, and a transcript whose analysis fails (invalid input, network,
\* parse or schema error) does not keep any later one from being analysed.
C29_OnePairPerTranscript ==
    /\ \A k \in 1..Len(batch.results) : batch.results[k].index = k - 1
    /\ Len(batch.results) <= batch.n
    /\ batch.pc = "returned" =>
          /\ Len(batch.results) = batch.n
          /\ Started(batch.events) = 0..(batch.n - 1)
          /\ \A k \in 1..batch.n :
                batch.results[k].out \in AnalyzeOutcomes

\* a batch whose first analysis failed and whose last gave a result
C29_Witness ==
    /\ batch.pc = "returned"
    /\ batch.n >= 2
    /\ batch.results[1].out # "result"
    /\ batch.results[batch.n].out = "result"

====
